---- MODULE Spec2Model ----
(***************************************************************************)
(* Model of iepy.core.BootstrappedIEPipeline (src/iepy/core.py): the       *)
(* bootstrapped information-extraction loop, its stage rotation and its    *)
(* knowledge / questions / answers / evidence state.                       *)
(*                                                                         *)
(* Numbers are fixed point: the Python number x is the integer x * One,    *)
(* so the score 1 is One, the neutral score 0.5 is Half, the label         *)
(* True == 1 is One and False == 0 is 0.                                   *)
(* A Knowledge (an ordered mapping) is a sequence of entries               *)
(* [e |-> Evidence, s |-> number] with pairwise distinct keys, in          *)
(* insertion order.  None is modelled by NoSegment / NoSlot / DNone.       *)
(***************************************************************************)
EXTENDS Integers, Sequences, FiniteSets, TLC

One == 100
Half == 50

(* Bounds of the exploration. *)
MaxCalls == 3
MaxAnswers == 2

(***************************************************************************)
(* Fact / Evidence values                                                  *)
(***************************************************************************)
NoSegment == "None"
NoSlot == 0 - 1

Entity(kind, key) == [kind |-> kind, key |-> key]
Fact(e1, relation, e2) == [e1 |-> e1, relation |-> relation, e2 |-> e2]
Evidence(fact, segment, o1, o2) == [fact |-> fact, segment |-> segment, o1 |-> o1, o2 |-> o2]

Alice == Entity("person", "alice")
Bob == Entity("person", "bob")
Acme == Entity("org", "acme")
Paris == Entity("place", "paris")

F1 == Fact(Alice, "works_at", Acme)
F2 == Fact(Bob, "works_at", Acme)
F3 == Fact(Alice, "born_in", Paris)
F4 == Fact(Acme, "works_at", Alice)
F5 == Fact(Bob, "born_in", Paris)

(* The seed_facts arguments explored: two relations; one relation twice with *)
(* the same pair of entity kinds; one relation given with two different      *)
(* pairs of entity kinds, next to each other and with a relation in between. *)
SeedChoices == { <<F1, F3>>, <<F3, F5>>, <<F1, F4>>, <<F1, F3, F4>> }

(***************************************************************************)
(* The corpus behind db_connector: two text segments and the entity        *)
(* occurrences in each.                                                    *)
(***************************************************************************)
Segments == <<"seg1", "seg2">>

SegmentEntities(segment) ==
    CASE segment = "seg1" -> <<Alice, Acme, Bob>>
      [] segment = "seg2" -> <<Alice, Paris>>

(***************************************************************************)
(* Sequence helper                                                         *)
(***************************************************************************)
RECURSIVE Flatten(_)
Flatten(seqs) ==
    IF Len(seqs) = 0 THEN <<>> ELSE Head(seqs) \o Flatten(Tail(seqs))

(***************************************************************************)
(* Knowledge: the ordered mapping Evidence -> number                       *)
(***************************************************************************)
Item(e, s) == [e |-> e, s |-> s]

KKeys(k) == { k[i].e : i \in 1..Len(k) }

KHas(k, e) == \E i \in 1..Len(k) : k[i].e = e

KGet(k, e) == k[CHOOSE i \in 1..Len(k) : k[i].e = e].s

(* k[e] = s: an existing key keeps its place, a new key goes last *)
KSet(k, e, s) ==
    IF KHas(k, e)
    THEN [i \in 1..Len(k) |-> IF k[i].e = e THEN Item(e, s) ELSE k[i]]
    ELSE Append(k, Item(e, s))

RECURSIVE KUpdate(_, _)
(* k.update(items): the items are written one by one, in order *)
KUpdate(k, items) ==
    IF Len(items) = 0 THEN k
    ELSE KUpdate(KSet(k, Head(items).e, Head(items).s), Tail(items))

(* Knowledge(items) *)
KNew(items) == KUpdate(<<>>, items)

(* del k[e] *)
KDel(k, e) == SelectSeq(k, LAMBDA it : it.e # e)

(* the score 0.5 is certainty 0, the scores 0 and 1 are certainty 1 *)
certainty(score) == (IF score >= Half THEN score - Half ELSE Half - score) * 2

(* the relation labels of k, in order of first occurrence *)
RelationsOf(k) ==
    LET first == SelectSeq([i \in 1..Len(k) |-> i],
                     LAMBDA i : \A j \in 1..(i - 1) :
                                   k[j].e.fact.relation # k[i].e.fact.relation)
    IN [n \in 1..Len(first) |-> k[first[n]].e.fact.relation]

(* k.per_relation(): one sub-Knowledge per relation label *)
per_relation(k) ==
    LET rels == RelationsOf(k)
    IN [n \in 1..Len(rels) |->
          [rel |-> rels[n],
           k |-> SelectSeq(k, LAMBDA it : it.e.fact.relation = rels[n])]]

RECURSIVE InsertSorted(_, _, _)
(* it goes after every entry whose key is >= its own: a stable descending sort *)
InsertSorted(sorted, it, key) ==
    IF Len(sorted) = 0 THEN <<it>>
    ELSE IF key[Head(sorted).e] >= key[it.e]
         THEN <<Head(sorted)>> \o InsertSorted(Tail(sorted), it, key)
         ELSE <<it>> \o sorted

RECURSIVE SortedDescending(_, _)
SortedDescending(k, key) ==
    IF Len(k) = 0 THEN <<>>
    ELSE InsertSorted(SortedDescending(SubSeq(k, 1, Len(k) - 1), key), k[Len(k)], key)

(* k.by_score(reverse=True): descending score, ties in insertion order *)
by_score(k) == SortedDescending(k, [e \in KKeys(k) |-> KGet(k, e)])

(* k.by_certainty(): descending certainty, ties in insertion order *)
by_certainty(k) == SortedDescending(k, [e \in KKeys(k) |-> certainty(KGet(k, e))])

(***************************************************************************)
(* Construction: __init__                                                  *)
(***************************************************************************)
(* self.knowledge: every seed fact as an ungrounded Evidence with score 1 *)
SeedKnowledge(seed_facts) ==
    KNew([i \in 1..Len(seed_facts) |->
            Item(Evidence(seed_facts[i], NoSegment, NoSlot, NoSlot), One)])

RelHas(relations, rel) == \E i \in 1..Len(relations) : relations[i].rel = rel

RelGet(relations, rel) ==
    relations[CHOOSE i \in 1..Len(relations) : relations[i].rel = rel].kinds

RelSet(relations, rel, kinds) ==
    IF RelHas(relations, rel)
    THEN [i \in 1..Len(relations) |->
            IF relations[i].rel = rel THEN [rel |-> rel, kinds |-> kinds]
            ELSE relations[i]]
    ELSE Append(relations, [rel |-> rel, kinds |-> kinds])

RECURSIVE BuildRelations(_, _)
(* the registry built without the check of line 117: the last pair of kinds wins *)
BuildRelations_last_wins(knowledge, relations) ==
    IF Len(knowledge) = 0 THEN [ok |-> TRUE, relations |-> relations]
    ELSE LET f == Head(knowledge).e.fact
         IN BuildRelations(Tail(knowledge),
                           RelSet(relations, f.relation, <<f.e1.kind, f.e2.kind>>))

(* the relation registry; ok is FALSE when the ValueError is raised *)
BuildRelations(knowledge, relations) ==
    IF Len(knowledge) = 0 THEN [ok |-> TRUE, relations |-> relations]
    ELSE LET f == Head(knowledge).e.fact
             kinds == <<f.e1.kind, f.e2.kind>>
         IN IF RelHas(relations, f.relation) /\ kinds # RelGet(relations, f.relation)
            THEN [ok |-> FALSE, relations |-> relations]
            ELSE BuildRelations(Tail(knowledge), RelSet(relations, f.relation, kinds))

segments_with_both_kinds(lkind, rkind) ==
    SelectSeq(Segments,
        LAMBDA sg : /\ \E i \in 1..Len(SegmentEntities(sg)) : SegmentEntities(sg)[i].kind = lkind
                    /\ \E j \in 1..Len(SegmentEntities(sg)) : SegmentEntities(sg)[j].kind = rkind)

(* the occurrence pairs (o1, o2), slots counted from 0, in row order *)
kind_occurrence_pairs(segment, lkind, rkind) ==
    LET ents == SegmentEntities(segment)
        n == Len(ents)
        all == [m \in 1..(n * n) |-> <<(m - 1) \div n, (m - 1) % n>>]
    IN SelectSeq(all, LAMBDA p : /\ p[1] # p[2]
                                 /\ ents[p[1] + 1].kind = lkind
                                 /\ ents[p[2] + 1].kind = rkind)

get_entity(kind, key) == Entity(kind, key)

(* self.evidence: every candidate Evidence of every registered relation at 0.5 *)
BuildEvidence(relations) ==
    LET ofSegment(r, lkind, rkind, sg) ==
            LET ps == kind_occurrence_pairs(sg, lkind, rkind)
                ents == SegmentEntities(sg)
            IN [n \in 1..Len(ps) |->
                  LET e1 == get_entity(ents[ps[n][1] + 1].kind, ents[ps[n][1] + 1].key)
                      e2 == get_entity(ents[ps[n][2] + 1].kind, ents[ps[n][2] + 1].key)
                  IN Item(Evidence(Fact(e1, r, e2), sg, ps[n][1], ps[n][2]), Half)]
        ofRelation(r, lkind, rkind) ==
            LET sgs == segments_with_both_kinds(lkind, rkind)
            IN Flatten([n \in 1..Len(sgs) |-> ofSegment(r, lkind, rkind, sgs[n])])
    IN KNew(Flatten([n \in 1..Len(relations) |->
                ofRelation(relations[n].rel, relations[n].kinds[1], relations[n].kinds[2])]))

(***************************************************************************)
(* Configuration, state and the values passed between stages               *)
(***************************************************************************)
(* scale_to_range when it is not configured *)
NoRange == <<>>

(* the scores a trained classifier can give an Evidence *)
RawScores == {0, 75, 100}

Config(drop, sort, range, classifier) ==
    [drop_guesses_each_round |-> drop,
     sort_questions_by |-> sort,
     scale_to_range |-> range,
     classifier |-> classifier,
     evidence_threshold |-> 90,
     fact_threshold |-> 70]

(* The configurations explored: every two settings of drop_guesses_each_round, *)
(* scale_to_range, sort_questions_by and the classifier occur together; and    *)
(* one with the thresholds at the certainty and the score of an unscored       *)
(* Evidence, 0 and 0.5.                                                        *)
Configs ==
    { Config(FALSE, "score", NoRange, "svm"),
      Config(TRUE, "certainty", NoRange, "labelspreading"),
      Config(FALSE, "certainty", <<0, One>>, "labelspreading"),
      Config(TRUE, "score", <<0, One>>, "svm"),
      [Config(FALSE, "score", NoRange, "svm") EXCEPT !.evidence_threshold = 0,
                                                     !.fact_threshold = Half] }

VARIABLES
    status,         \* "ok", or "ValueError" when __init__ raised
    seed_facts,     \* the seed_facts argument of __init__
    cfg,            \* the configuration arguments of __init__
    relations,      \* self.relations
    knowledge,      \* self.knowledge
    questions,      \* self.questions
    answers,        \* self.answers: Evidence -> {0, 1}
    evidence,       \* self.evidence, the evidence universe
    pos,            \* self.step_iterator: index in steps of the next step
    lastOp,         \* the API operation called last
    round,          \* the last start()/force_process() call and the stages it ran
    ret,            \* what the last questions_available()/known_facts() returned
    ncalls          \* number of start()/force_process() calls so far

vars == <<status, seed_facts, cfg, relations, knowledge, questions, answers,
          evidence, pos, lastOp, round, ret, ncalls>>

(* steps with filter_facts and evaluate in each other's place *)
steps_swapped == <<"generalize_knowledge", "generate_questions", "PAUSE", "filter_evidence",
                   "learn_fact_extractors", "extract_facts", "evaluate", "filter_facts">>

(* self.steps; the None entry is the pause *)
steps == <<"generalize_knowledge", "generate_questions", "PAUSE", "filter_evidence",
           "learn_fact_extractors", "extract_facts", "filter_facts", "evaluate">>

(* itertools.cycle(self.steps): the index after p *)
NextPos(p) == IF p = Len(steps) THEN 1 ELSE p + 1

(* position of the iterator once the pause has been consumed *)
Paused == 4

(* values flowing from stage to stage: None, a Knowledge, or the classifiers dict *)
DNone == [tag |-> "None", k |-> <<>>, c |-> <<>>]
DK(k) == [tag |-> "Knowledge", k |-> k, c |-> <<>>]
DC(c) == [tag |-> "Classifiers", k |-> <<>>, c |-> c]

(* the mutable attributes of the pipeline *)
State(kn, qu, an, ev) == [knowledge |-> kn, questions |-> qu, answers |-> an, evidence |-> ev]

(* the order in which the items of self.answers are iterated: the universe, *)
(* then the ungrounded seed Evidence                                        *)
AnswerOrder(st) ==
    LET seeds == SeedKnowledge(seed_facts)
    IN [i \in 1..Len(st.evidence) |-> st.evidence[i].e]
       \o [i \in 1..Len(seeds) |-> seeds[i].e]

(* outcome of a stage: the attributes after it, its return value, the exception raised *)
Result(st, out, exc) == [st |-> st, out |-> out, exc |-> exc]

(* self.answers is a plain dict, a function from the answered Evidence to  *)
(* {0, 1}; its items are iterated in the order of ord, as numbers          *)
AnswerItems(an, ord) ==
    LET answered == SelectSeq(ord, LAMBDA e : e \in DOMAIN an)
    IN [i \in 1..Len(answered) |-> Item(answered[i], an[answered[i]] * One)]

NoAnswers == [e \in {} |-> 0]

(***************************************************************************)
(* The classifier collaborator.  What FactExtractorFactory and the         *)
(* prediction method do is decided outside the pipeline: per relation, the *)
(* build raises, or the prediction raises, or every Evidence gets a score. *)
(***************************************************************************)
EvidenceOf(ev, rel) == { e \in KKeys(ev) : e.fact.relation = rel }

ClassifierOutcomes(ev, rel) ==
    LET dflt == [e \in EvidenceOf(ev, rel) |-> 0]
    IN {[build_ok |-> FALSE, predict_ok |-> FALSE, scores |-> dflt],
        [build_ok |-> TRUE, predict_ok |-> FALSE, scores |-> dflt]}
       \cup {[build_ok |-> TRUE, predict_ok |-> TRUE, scores |-> sc] :
                sc \in [EvidenceOf(ev, rel) -> RawScores]}

RelationLabels(ev) == { e.fact.relation : e \in KKeys(ev) }

(* the relations with both labels in the training data k: the only ones for *)
(* which the collaborator is called                                         *)
Trainable(k) ==
    { r \in RelationLabels(k) :
        /\ \E i \in 1..Len(k) : k[i].e.fact.relation = r /\ k[i].s = One
        /\ \E i \in 1..Len(k) : k[i].e.fact.relation = r /\ k[i].s = 0 }

(* one outcome for each relation whose classifier is built in the call *)
Oracles(ev, consulted) ==
    { o \in [consulted -> UNION { ClassifierOutcomes(ev, r) : r \in consulted }] :
        \A r \in consulted : o[r] \in ClassifierOutcomes(ev, r) }

(***************************************************************************)
(* Pipeline stages.  Each takes the attributes st and the previous         *)
(* stage's return value data.                                              *)
(***************************************************************************)
(* fact_knowledge keeping the score of the first entry of k whose fact is f *)
FactScore_first(k, f) ==
    k[CHOOSE i \in 1..Len(k) :
         /\ k[i].e.fact = f
         /\ \A j \in 1..(i - 1) : k[j].e.fact # f].s

(* fact_knowledge[f]: the score of the last entry of k whose fact is f *)
FactScore(k, f) ==
    k[CHOOSE i \in 1..Len(k) :
         /\ k[i].e.fact = f
         /\ \A j \in (i + 1)..Len(k) : k[j].e.fact # f].s

generalize_knowledge(st, data) ==
    IF data.tag # "Knowledge" THEN Result(st, DNone, "AttributeError")
    ELSE LET k == data.k
             facts == { k[i].e.fact : i \in 1..Len(k) }
             found == SelectSeq(st.evidence, LAMBDA it : it.e.fact \in facts)
         IN Result(st,
                   DK(KNew([i \in 1..Len(found) |->
                              Item(found[i].e, FactScore(k, found[i].e.fact))])),
                   "none")

(* generate_questions emptying one shared mapping: self.questions is self.evidence *)
generate_questions_shared(st, data) ==
    LET unanswered(k) == SelectSeq(k, LAMBDA it : it.e \notin DOMAIN st.answers)
        fromEvidence == unanswered(st.evidence)
    IN IF data.tag # "Knowledge"
       THEN Result([st EXCEPT !.questions = fromEvidence, !.evidence = fromEvidence],
                   DNone, "AttributeError")
       ELSE Result([st EXCEPT !.questions = KUpdate(fromEvidence, unanswered(data.k)),
                              !.evidence = fromEvidence],
                   DNone, "none")

(* generate_questions without the second update: no score is overridden *)
generate_questions_no_override(st, data) ==
    LET unanswered(k) == SelectSeq(k, LAMBDA it : it.e \notin DOMAIN st.answers)
        fromEvidence == KNew(unanswered(st.evidence))
    IN IF data.tag # "Knowledge"
       THEN Result([st EXCEPT !.questions = fromEvidence], DNone, "AttributeError")
       ELSE Result([st EXCEPT !.questions = fromEvidence], DNone, "none")

generate_questions(st, data) ==
    LET unanswered(k) == SelectSeq(k, LAMBDA it : it.e \notin DOMAIN st.answers)
        fromEvidence == KNew(unanswered(st.evidence))
    IN IF data.tag # "Knowledge"
       THEN Result([st EXCEPT !.questions = fromEvidence], DNone, "AttributeError")
       ELSE Result([st EXCEPT !.questions = KUpdate(fromEvidence, unanswered(data.k))],
                   DNone, "none")

(* filter_evidence without the test "e not in self.answers": the label made *)
(* from a confident score is written over the human answer                 *)
filter_evidence_auto_overrides(st, data) ==
    LET confident == SelectSeq(st.evidence,
                        LAMBDA it : certainty(it.s) > cfg.evidence_threshold)
        labelled == [i \in 1..Len(confident) |->
                        Item(confident[i].e, IF confident[i].s > Half THEN One ELSE 0)]
    IN Result(st, DK(KUpdate(KNew(AnswerItems(st.answers, AnswerOrder(st))), labelled)), "none")

filter_evidence(st, data) ==
    LET confident == SelectSeq(st.evidence,
                        LAMBDA it : /\ certainty(it.s) > cfg.evidence_threshold
                                    /\ it.e \notin DOMAIN st.answers)
        labelled == [i \in 1..Len(confident) |->
                        Item(confident[i].e, IF confident[i].s > Half THEN One ELSE 0)]
    IN Result(st, DK(KUpdate(KNew(AnswerItems(st.answers, AnswerOrder(st))), labelled)), "none")

_build_extractor(st, relation, data, orc) ==
    LET unlabeled == SelectSeq(st.evidence, LAMBDA it : ~KHas(data, it.e))
        full == IF cfg.classifier = "labelspreading"
                THEN KUpdate(data, [i \in 1..Len(unlabeled) |-> Item(unlabeled[i].e, 0 - One)])
                ELSE data
    IN [st |-> st,
        data |-> full,
        classifier |-> [predict_ok |-> orc[relation].predict_ok,
                        scores |-> orc[relation].scores],
        exc |-> IF orc[relation].build_ok THEN "none" ELSE "ClassifierError"]

RECURSIVE LearnLoop(_, _, _, _)
(* the body of the loop over evidence.per_relation().items() *)
LearnLoop(st, groups, classifiers, orc) ==
    IF Len(groups) = 0 THEN Result(st, DC(classifiers), "none")
    ELSE LET rel == Head(groups).rel
             k == Head(groups).k
             yesno == { k[i].s : i \in 1..Len(k) }
         IN IF One \notin yesno \/ 0 \notin yesno
            THEN LearnLoop(st, Tail(groups), classifiers, orc)
            ELSE IF Cardinality(yesno) # 2
            THEN Result(st, DNone, "AssertionError")
            ELSE LET b == _build_extractor(st, rel, KNew(k), orc)
                 IN IF b.exc # "none" THEN Result(b.st, DNone, b.exc)
                    ELSE LearnLoop(b.st, Tail(groups),
                                   Append(classifiers, [rel |-> rel, classifier |-> b.classifier]),
                                   orc)

(* learn_fact_extractors taking the "continue" of line 262 for every relation *)
learn_fact_extractors_skips_all(st, data, orc) ==
    IF data.tag # "Knowledge" THEN Result(st, DNone, "AttributeError")
    ELSE Result(st, DC(<<>>), "none")

learn_fact_extractors(st, data, orc) ==
    IF data.tag # "Knowledge" THEN Result(st, DNone, "AttributeError")
    ELSE LearnLoop(st, per_relation(data.k), <<>>, orc)

SeqMax(ps) == CHOOSE x \in { ps[i] : i \in 1..Len(ps) } : \A i \in 1..Len(ps) : ps[i] <= x

SeqMin(ps) == CHOOSE x \in { ps[i] : i \in 1..Len(ps) } : \A i \in 1..Len(ps) : ps[i] >= x

(* _score_evidence answering a failed prediction with the neutral score *)
_score_evidence_neutral(relation, classifier, evidence_list) ==
    IF Len(classifier) = 0 \/ ~classifier[1].predict_ok
    THEN [ps |-> [i \in 1..Len(evidence_list) |-> Half], exc |-> "none"]
    ELSE LET ps == [i \in 1..Len(evidence_list) |-> classifier[1].scores[evidence_list[i]]]
         IN IF cfg.scale_to_range = NoRange
            THEN [ps |-> ps, exc |-> "none"]
            ELSE LET a == cfg.scale_to_range[1]
                     b == cfg.scale_to_range[2]
                     range_min == IF a <= b THEN a ELSE b
                     range_max == IF a <= b THEN b ELSE a
                     range_delta == range_max - range_min
                     min_score == SeqMin(ps)
                     score_range == SeqMax(ps) - min_score
                 IN IF score_range = 0
                    THEN [ps |-> <<>>, exc |-> "ZeroDivisionError"]
                    ELSE [ps |-> [i \in 1..Len(ps) |->
                                    ((ps[i] - min_score) * range_delta) \div score_range
                                    + range_min],
                          exc |-> "none"]

(* classifier is <<>> for None, else <<the classifier>> *)
_score_evidence(relation, classifier, evidence_list) ==
    IF Len(classifier) = 0
    THEN [ps |-> [i \in 1..Len(evidence_list) |-> Half], exc |-> "none"]
    ELSE IF ~classifier[1].predict_ok
    THEN [ps |-> <<>>, exc |-> "ClassifierError"]
    ELSE LET ps == [i \in 1..Len(evidence_list) |-> classifier[1].scores[evidence_list[i]]]
         IN IF cfg.scale_to_range = NoRange
            THEN [ps |-> ps, exc |-> "none"]
            ELSE LET a == cfg.scale_to_range[1]
                     b == cfg.scale_to_range[2]
                     range_min == IF a <= b THEN a ELSE b
                     range_max == IF a <= b THEN b ELSE a
                     range_delta == range_max - range_min
                     min_score == SeqMin(ps)
                     score_range == SeqMax(ps) - min_score
                 IN IF score_range = 0
                    THEN [ps |-> <<>>, exc |-> "ZeroDivisionError"]
                    ELSE [ps |-> [i \in 1..Len(ps) |->
                                    ((ps[i] - min_score) * range_delta) \div score_range
                                    + range_min],
                          exc |-> "none"]

(* classifiers.get(r, None) *)
ClassifierFor(data, r) ==
    IF data.tag = "Classifiers" /\ \E i \in 1..Len(data.c) : data.c[i].rel = r
    THEN <<data.c[CHOOSE i \in 1..Len(data.c) : data.c[i].rel = r].classifier>>
    ELSE <<>>

RECURSIVE ExtractLoop(_, _, _, _)
(* the body of the loop over self.evidence.per_relation().items() *)
ExtractLoop(st, groups, data, result) ==
    IF Len(groups) = 0
    THEN Result([st EXCEPT !.evidence = KUpdate(st.evidence, result)], DK(result), "none")
    ELSE IF data.tag = "None" THEN Result(st, DNone, "AttributeError")
    ELSE LET elist == [i \in 1..Len(Head(groups).k) |-> Head(groups).k[i].e]
             sc == _score_evidence(Head(groups).rel, ClassifierFor(data, Head(groups).rel), elist)
         IN IF sc.exc # "none" THEN Result(st, DNone, sc.exc)
            ELSE ExtractLoop(st, Tail(groups), data,
                             KUpdate(result, [i \in 1..Len(elist) |-> Item(elist[i], sc.ps[i])]))

(* extract_facts without line 319: the scores are returned and not saved *)
extract_facts_not_saved(st, data, orc) ==
    LET r == ExtractLoop(st, per_relation(st.evidence), data, <<>>)
    IN Result(st, r.out, r.exc)

extract_facts(st, data, orc) ==
    ExtractLoop(st, per_relation(st.evidence), data, <<>>)

RECURSIVE Unlearn(_, _)
(* del self.knowledge[e] for every answer e -> 0 that is in it *)
Unlearn(k, an) ==
    IF Len(an) = 0 THEN k
    ELSE Unlearn(IF Head(an).s = 0 /\ KHas(k, Head(an).e) THEN KDel(k, Head(an).e) ELSE k,
                 Tail(an))

(* filter_facts without the loop that unlearns the negative answers *)
filter_facts_keep_rejected(st, data) ==
    LET items == AnswerItems(st.answers, AnswerOrder(st))
        positive == SelectSeq(items, LAMBDA it : it.s # 0)
        kept == IF cfg.drop_guesses_each_round THEN KNew(positive) ELSE st.knowledge
    IN IF data.tag # "Knowledge"
       THEN Result([st EXCEPT !.knowledge = kept], DNone, "AttributeError")
       ELSE LET accepted == SelectSeq(data.k, LAMBDA it : it.s > cfg.fact_threshold)
                final == KUpdate(kept, accepted)
            IN Result([st EXCEPT !.knowledge = final], DK(final), "none")

(* filter_facts whose unlearning loop also drops the negative answers themselves *)
filter_facts_forget_answers(st, data) ==
    LET items == AnswerItems(st.answers, AnswerOrder(st))
        positive == SelectSeq(items, LAMBDA it : it.s # 0)
        kept == IF cfg.drop_guesses_each_round THEN KNew(positive) ELSE st.knowledge
        remembered == [e \in { x \in DOMAIN st.answers : st.answers[x] # 0 } |-> st.answers[e]]
    IN IF data.tag # "Knowledge"
       THEN Result([st EXCEPT !.knowledge = kept], DNone, "AttributeError")
       ELSE LET accepted == SelectSeq(data.k, LAMBDA it : it.s > cfg.fact_threshold)
                final == Unlearn(KUpdate(kept, accepted), items)
            IN Result([st EXCEPT !.knowledge = final, !.answers = remembered],
                      DK(final), "none")

(* filter_facts accepting the scores at fact_threshold too: s >= fact_threshold *)
filter_facts_at_threshold(st, data) ==
    LET items == AnswerItems(st.answers, AnswerOrder(st))
        positive == SelectSeq(items, LAMBDA it : it.s # 0)
        kept == IF cfg.drop_guesses_each_round THEN KNew(positive) ELSE st.knowledge
    IN IF data.tag # "Knowledge"
       THEN Result([st EXCEPT !.knowledge = kept], DNone, "AttributeError")
       ELSE LET accepted == SelectSeq(data.k, LAMBDA it : it.s >= cfg.fact_threshold)
                final == Unlearn(KUpdate(kept, accepted), items)
            IN Result([st EXCEPT !.knowledge = final], DK(final), "none")

(* filter_facts taking the branch of lines 329-332 whatever the configuration *)
filter_facts_always_drops(st, data) ==
    LET items == AnswerItems(st.answers, AnswerOrder(st))
        kept == KNew(SelectSeq(items, LAMBDA it : it.s # 0))
    IN IF data.tag # "Knowledge"
       THEN Result([st EXCEPT !.knowledge = kept], DNone, "AttributeError")
       ELSE LET accepted == SelectSeq(data.k, LAMBDA it : it.s > cfg.fact_threshold)
                final == Unlearn(KUpdate(kept, accepted), items)
            IN Result([st EXCEPT !.knowledge = final], DK(final), "none")

(* filter_facts without lines 328-332: drop_guesses_each_round is ignored *)
filter_facts_keeps_guesses(st, data) ==
    LET items == AnswerItems(st.answers, AnswerOrder(st))
    IN IF data.tag # "Knowledge"
       THEN Result(st, DNone, "AttributeError")
       ELSE LET accepted == SelectSeq(data.k, LAMBDA it : it.s > cfg.fact_threshold)
                final == Unlearn(KUpdate(st.knowledge, accepted), items)
            IN Result([st EXCEPT !.knowledge = final], DK(final), "none")

filter_facts(st, data) ==
    LET items == AnswerItems(st.answers, AnswerOrder(st))
        positive == SelectSeq(items, LAMBDA it : it.s # 0)
        kept == IF cfg.drop_guesses_each_round THEN KNew(positive) ELSE st.knowledge
    IN IF data.tag # "Knowledge"
       THEN Result([st EXCEPT !.knowledge = kept], DNone, "AttributeError")
       ELSE LET accepted == SelectSeq(data.k, LAMBDA it : it.s > cfg.fact_threshold)
                final == Unlearn(KUpdate(kept, accepted), items)
            IN Result([st EXCEPT !.knowledge = final], DK(final), "none")

evaluate(st, data) == Result(st, data, "none")

(***************************************************************************)
(* The stage rotation                                                      *)
(***************************************************************************)
RunStep(step, st, data, orc) ==
    CASE step = "generalize_knowledge" -> generalize_knowledge(st, data)
      [] step = "generate_questions" -> generate_questions(st, data)
      [] step = "filter_evidence" -> filter_evidence(st, data)
      [] step = "learn_fact_extractors" -> learn_fact_extractors(st, data, orc)
      [] step = "extract_facts" -> extract_facts(st, data, orc)
      [] step = "filter_facts" -> filter_facts(st, data)
      [] step = "evaluate" -> evaluate(st, data)

LogEntry(step, data, r) == [stage |-> step, in |-> data, out |-> r.out, exc |-> r.exc]

RECURSIVE do_iteration(_, _, _, _, _)
(* steps are taken from the iterator until the pause is drawn or a step raises; *)
(* the iterator has then moved past the last step drawn                          *)
do_iteration(st, p, data, orc, log) ==
    IF steps[p] = "PAUSE"
    THEN [st |-> st, pos |-> NextPos(p), log |-> log, exc |-> "none"]
    ELSE LET r == RunStep(steps[p], st, data, orc)
             lg == Append(log, LogEntry(steps[p], data, r))
         IN IF r.exc # "none"
            THEN [st |-> r.st, pos |-> NextPos(p), log |-> lg, exc |-> r.exc]
            ELSE do_iteration(r.st, NextPos(p), r.out, orc, lg)

(***************************************************************************)
(* Initial state: the pipeline as __init__ leaves it                       *)
(***************************************************************************)
NoRound == [op |-> "none", from |-> 1, input |-> DNone, log |-> <<>>, exc |-> "none"]

NoReturn == <<>>

Init ==
    \E sf \in SeedChoices, c \in Configs :
        LET kn == SeedKnowledge(sf)
            br == BuildRelations(kn, <<>>)
        IN /\ seed_facts = sf
           /\ cfg = c
           /\ status = IF br.ok THEN "ok" ELSE "ValueError"
           /\ relations = IF br.ok THEN br.relations ELSE <<>>
           /\ knowledge = IF br.ok THEN kn ELSE <<>>
           /\ evidence = IF br.ok THEN BuildEvidence(br.relations) ELSE <<>>
           /\ questions = <<>>
           /\ answers = NoAnswers
           /\ pos = 1
           /\ lastOp = "init"
           /\ round = NoRound
           /\ ret = NoReturn
           /\ ncalls = 0

(***************************************************************************)
(* User API                                                                *)
(***************************************************************************)
Attributes == State(knowledge, questions, answers, evidence)

(* the relations whose classifier is built by a call entering the rotation at p *)
Consulted(p, data) ==
    LET training == IF steps[p] = "filter_evidence" THEN filter_evidence(Attributes, data).out
                    ELSE IF steps[p] = "learn_fact_extractors" THEN data
                    ELSE DNone
    IN IF training.tag = "Knowledge" THEN Trainable(training.k) ELSE {}

(* a call of do_iteration(data) made by operation op *)
Iterate(op, data) ==
    \E orc \in Oracles(evidence, Consulted(pos, data)) :
        \E r \in {do_iteration(Attributes, pos, data, orc, <<>>)} :
           /\ knowledge' = r.st.knowledge
           /\ questions' = r.st.questions
           /\ answers' = r.st.answers
           /\ evidence' = r.st.evidence
           /\ pos' = r.pos
           /\ round' = [op |-> op, from |-> pos, input |-> data, log |-> r.log, exc |-> r.exc]

(* start() handing None to do_iteration *)
start_without_knowledge ==
    /\ status = "ok"
    /\ ncalls < MaxCalls
    /\ Iterate("start", DNone)
    /\ lastOp' = "start"
    /\ ret' = NoReturn
    /\ ncalls' = ncalls + 1
    /\ UNCHANGED <<status, seed_facts, cfg, relations>>

start ==
    /\ status = "ok"
    /\ ncalls < MaxCalls
    /\ Iterate("start", DK(knowledge))
    /\ lastOp' = "start"
    /\ ret' = NoReturn
    /\ ncalls' = ncalls + 1
    /\ UNCHANGED <<status, seed_facts, cfg, relations>>

force_process ==
    /\ status = "ok"
    /\ ncalls < MaxCalls
    /\ Iterate("force_process", DNone)
    /\ lastOp' = "force_process"
    /\ ret' = NoReturn
    /\ ncalls' = ncalls + 1
    /\ UNCHANGED <<status, seed_facts, cfg, relations>>

(* int(answer) *)
int(answer) == IF answer THEN 1 ELSE 0

(* the Evidence a caller can name: the universe and the ungrounded seed Evidence *)
Answerable == KKeys(evidence) \cup KKeys(SeedKnowledge(seed_facts))

(* add_answer also taking the answered Evidence out of self.questions *)
add_answer_dequeue(e, answer) ==
    /\ status = "ok"
    /\ e \in DOMAIN answers \/ Cardinality(DOMAIN answers) < MaxAnswers
    /\ answers' = [x \in DOMAIN answers \cup {e} |-> IF x = e THEN int(answer) ELSE answers[x]]
    /\ questions' = KDel(questions, e)
    /\ lastOp' = "add_answer"
    /\ ret' = NoReturn
    /\ UNCHANGED <<status, seed_facts, cfg, relations, knowledge,
                   evidence, pos, round, ncalls>>

add_answer(e, answer) ==
    /\ status = "ok"
    /\ e \in DOMAIN answers \/ Cardinality(DOMAIN answers) < MaxAnswers
    /\ answers' = [x \in DOMAIN answers \cup {e} |-> IF x = e THEN int(answer) ELSE answers[x]]
    /\ lastOp' = "add_answer"
    /\ ret' = NoReturn
    /\ UNCHANGED <<status, seed_facts, cfg, relations, knowledge, questions,
                   evidence, pos, round, ncalls>>

questions_available ==
    /\ status = "ok"
    /\ ret' = IF cfg.sort_questions_by = "score" THEN by_score(questions)
              ELSE by_certainty(questions)
    /\ lastOp' = "questions_available"
    /\ UNCHANGED <<status, seed_facts, cfg, relations, knowledge, questions, answers,
                   evidence, pos, round, ncalls>>

known_facts ==
    /\ status = "ok"
    /\ ret' = knowledge
    /\ lastOp' = "known_facts"
    /\ UNCHANGED <<status, seed_facts, cfg, relations, knowledge, questions, answers,
                   evidence, pos, round, ncalls>>

(* the operations that change the pipeline *)
Calls ==
    \/ start
    \/ force_process
    \/ \E e \in Answerable, answer \in BOOLEAN : add_answer(e, answer)

(* the operations that read it *)
Reads ==
    \/ questions_available
    \/ known_facts

Next == Calls \/ Reads

(* the whole user API *)
Spec == Init /\ [][Next]_vars

(* the state-changing operations alone *)
SpecCalls == Init /\ [][Calls]_vars

(***************************************************************************)
(* Properties                                                              *)
(***************************************************************************)
RoundCall == lastOp \in {"start", "force_process"}

(* the stages the last start()/force_process() ran, the raising one included *)
StagesRun == [i \in 1..Len(round.log) |-> round.log[i].stage]

(* stage name completed in the last start()/force_process() call *)
Completed(name) ==
    \E i \in 1..Len(round.log) : round.log[i].stage = name /\ round.log[i].exc = "none"

Rejected == { e \in DOMAIN answers : answers[e] = 0 }

(* C1: once filter_facts has completed, and at the pause after it before any *)
(* further answer, no Evidence answered 0 is a key of knowledge: neither of  *)
(* the Knowledge filter_facts returned nor of self.knowledge.                *)
C1_HumanOverride ==
    RoundCall =>
        \A i \in 1..Len(round.log) :
            (round.log[i].stage = "filter_facts" /\ round.log[i].exc = "none") =>
                \A e \in Rejected : ~KHas(round.log[i].out.k, e) /\ ~KHas(knowledge, e)

(* C1 witness: filter_facts completed on facts in which an Evidence answered 0 *)
(* scores above fact_threshold.                                                *)
C1_Witness ==
    /\ RoundCall
    /\ \E i \in 1..Len(round.log), e \in Rejected :
          /\ round.log[i].stage = "filter_facts"
          /\ round.log[i].exc = "none"
          /\ KHas(round.log[i].in.k, e)
          /\ KGet(round.log[i].in.k, e) > cfg.fact_threshold

SevenStages == <<"filter_evidence", "learn_fact_extractors", "extract_facts", "filter_facts",
                 "evaluate", "generalize_knowledge", "generate_questions">>

(* every stage after the first got what the stage before it returned *)
Chained ==
    \A i \in 2..Len(round.log) : round.log[i].in = round.log[i - 1].out

(* C2 as stated: every force_process() made at the pause runs the seven stages *)
(* once each, in order, chained from None, and returns at the pause again.     *)
C2_SevenStagesAlways ==
    (round.op = "force_process" /\ round.from = Paused) =>
        /\ StagesRun = SevenStages
        /\ round.log[1].in = DNone
        /\ Chained
        /\ round.exc = "none"
        /\ pos = Paused

(* C2 amended: a force_process() made at the pause runs the seven stages in    *)
(* order, chained from None, up to the first stage that raises; when none      *)
(* raises it ran all seven and the loop is at the pause again; when one raises *)
(* (a classifier failure or the division fault, in learn_fact_extractors or    *)
(* extract_facts) the exception propagates and the rotation stands just after  *)
(* the raising stage.                                                          *)
C2_SevenStagesUntilRaise ==
    (round.op = "force_process" /\ round.from = Paused) =>
        LET n == Len(round.log)
        IN /\ n \in 1..7
           /\ StagesRun = SubSeq(SevenStages, 1, n)
           /\ round.log[1].in = DNone
           /\ Chained
           /\ \A i \in 1..(n - 1) : round.log[i].exc = "none"
           /\ round.log[n].exc = round.exc
           /\ round.exc = "none" => (n = 7 /\ pos = Paused)
           /\ round.exc # "none" =>
                 /\ round.exc \in {"ClassifierError", "ZeroDivisionError"}
                 /\ round.log[n].stage \in {"learn_fact_extractors", "extract_facts"}
                 /\ pos = Paused + n

(* C2 witness: the third call is a second consecutive whole round, with a *)
(* trained classifier.                                                     *)
C2_Witness ==
    /\ round.op = "force_process"
    /\ round.from = Paused
    /\ round.exc = "none"
    /\ ncalls >= 3
    /\ Len(round.log) = 7
    /\ Len(round.log[2].out.c) > 0

(* C3 as stated: every start() runs generalize_knowledge on the current *)
(* knowledge, then generate_questions, and returns at the pause.        *)
C3_StartAlwaysGeneralizes ==
    round.op = "start" =>
        /\ StagesRun = <<"generalize_knowledge", "generate_questions">>
        /\ round.log[1].in = round.input
        /\ round.input.tag = "Knowledge"
        /\ lastOp = "start" => round.input.k = knowledge
        /\ round.exc = "none"
        /\ pos = Paused

(* C3 amended: a start() made on the freshly constructed pipeline (no start() *)
(* or force_process() before it) runs generalize_knowledge on the current     *)
(* knowledge, then generate_questions, and returns at the pause; a start()    *)
(* made at the pause continues the rotation at filter_evidence instead.       *)
C3_FirstStartGeneralizes ==
    /\ (round.op = "start" /\ round.from = 1) =>
          /\ StagesRun = <<"generalize_knowledge", "generate_questions">>
          /\ round.log[1].in = round.input
          /\ round.input.tag = "Knowledge"
          /\ lastOp = "start" => round.input.k = knowledge
          /\ round.exc = "none"
          /\ pos = Paused
    /\ (round.op = "start" /\ round.from = Paused) =>
          round.log[1].stage = "filter_evidence"
    /\ pos = 1 <=> ncalls = 0

(* C3 witness: the first call was start() and it left questions to ask. *)
C3_Witness ==
    /\ lastOp = "start"
    /\ round.op = "start"
    /\ round.from = 1
    /\ Len(questions) > 0
    /\ \E i \in 1..Len(questions) : questions[i].s = One

(* C4: no step removes a key of answers; a step of add_answer adds or rewrites *)
(* exactly one key, with 0 or 1; every other step leaves answers as it is.     *)
C4_AnswersOnlyGrow ==
    [][ /\ DOMAIN answers \subseteq DOMAIN answers'
        /\ lastOp' # "add_answer" => answers' = answers
        /\ lastOp' = "add_answer" =>
              \E e \in DOMAIN answers' :
                  /\ DOMAIN answers' = DOMAIN answers \cup {e}
                  /\ answers'[e] \in {0, 1}
                  /\ \A x \in DOMAIN answers \ {e} : answers'[x] = answers[x] ]_vars

(* C4 witness: with drop_guesses_each_round, filter_facts has completed while *)
(* a negative and a positive answer were recorded, and they still are.        *)
C4_Witness ==
    /\ RoundCall
    /\ cfg.drop_guesses_each_round
    /\ Completed("filter_facts")
    /\ \E e1 \in DOMAIN answers, e2 \in DOMAIN answers : answers[e1] = 0 /\ answers[e2] = 1

(* the evidence universe as __init__ built it *)
Universe == KKeys(BuildEvidence(BuildRelations(SeedKnowledge(seed_facts), <<>>).relations))

(* C5: the key set of self.evidence is the one construction gave it. *)
C5_UniverseKeysFixed ==
    status = "ok" =>
        /\ KKeys(evidence) = Universe
        /\ Len(evidence) = Cardinality(Universe)

(* C5 witness: a label-spreading classifier was built and extract_facts has *)
(* rescored the universe with it.                                           *)
C5_Witness ==
    /\ cfg.classifier = "labelspreading"
    /\ Completed("extract_facts")
    /\ \E i \in 1..Len(round.log) :
          round.log[i].stage = "extract_facts" /\ Len(round.log[i].in.c) > 0
    /\ \E i \in 1..Len(evidence) : evidence[i].s # Half
    /\ DOMAIN answers # {}

SeedFactSet == { seed_facts[i] : i \in 1..Len(seed_facts) }

FirstStartNoAnswers ==
    /\ lastOp = "questions_available"
    /\ round.op = "start"
    /\ round.from = 1
    /\ ncalls = 1
    /\ DOMAIN answers = {}

(* C6: questions_available() after start() on the fresh pipeline, no answer *)
(* given: the whole universe is listed, Evidence of a seed fact with score  *)
(* 1 and the rest with 0.5, all of the former before all of the latter.     *)
C6_SeedEvidenceFirst ==
    FirstStartNoAnswers =>
        /\ KKeys(ret) = Universe
        /\ Len(ret) = Cardinality(Universe)
        /\ \A i \in 1..Len(ret) :
              ret[i].s = IF ret[i].e.fact \in SeedFactSet THEN One ELSE Half
        /\ \A i \in 1..Len(ret), j \in 1..Len(ret) :
              (ret[i].e.fact \in SeedFactSet /\ ret[j].e.fact \notin SeedFactSet) => i < j

(* C6 witness: sorted by certainty, the list holds Evidence of a seed fact *)
(* and Evidence of another fact.                                           *)
C6_Witness ==
    /\ FirstStartNoAnswers
    /\ cfg.sort_questions_by = "certainty"
    /\ \E i \in 1..Len(ret), j \in 1..Len(ret) :
          ret[i].e.fact \in SeedFactSet /\ ret[j].e.fact \notin SeedFactSet

(* C7: a step of questions_available() or known_facts() changes no attribute *)
(* of the pipeline and, straight after the same read, returns the same; a    *)
(* step of add_answer leaves questions, knowledge, the universe and the      *)
(* position of the rotation alone.                                           *)
C7_ReadsAndAnswersFrame ==
    [][ /\ lastOp' \in {"questions_available", "known_facts"} =>
              /\ UNCHANGED <<knowledge, questions, answers, evidence, pos>>
              /\ lastOp = lastOp' => ret' = ret
        /\ lastOp' = "add_answer" =>
              UNCHANGED <<knowledge, questions, evidence, pos>> ]_vars

(* C7 witness: questions_available() has listed an Evidence that was answered *)
(* after the questions were generated.                                        *)
C7_Witness ==
    /\ lastOp = "questions_available"
    /\ \E i \in 1..Len(ret) : ret[i].e \in DOMAIN answers

(* C8 as stated: a force_process() made off the pause, as on the fresh    *)
(* pipeline, hands None to the stage the rotation stands at and returns   *)
(* normally at the next pause.                                            *)
C8_ForceProcessOffPause ==
    (round.op = "force_process" /\ round.from # Paused) =>
        /\ round.exc = "none"
        /\ pos = Paused
        /\ Len(round.log) > 0 => round.log[1].in = DNone

(* the scores a classifier gives its relation's batch all coincide *)
Collapsed(classifier) ==
    /\ classifier.predict_ok
    /\ Cardinality({ classifier.scores[e] : e \in DOMAIN classifier.scores }) = 1

(* C9 as stated: with scale_to_range set, extract_facts given a classifier *)
(* whose batch scores coincide raises no division fault, and when it       *)
(* completes the batch carries the unscaled scores.                        *)
C9_NoDivisionFault ==
    cfg.scale_to_range # NoRange =>
        \A i \in 1..Len(round.log) :
            LET entry == round.log[i]
            IN (entry.stage = "extract_facts" /\ entry.in.tag = "Classifiers") =>
                  \A j \in 1..Len(entry.in.c) :
                      Collapsed(entry.in.c[j].classifier) =>
                          /\ entry.exc # "ZeroDivisionError"
                          /\ entry.exc = "none" =>
                                \A e \in DOMAIN entry.in.c[j].classifier.scores :
                                    KGet(entry.out.k, e) = entry.in.c[j].classifier.scores[e]

(* extract_facts was handed a classifier whose prediction fails, and no *)
(* classifier whose scaling faults                                      *)
PredictionFails(entry) ==
    /\ entry.stage = "extract_facts"
    /\ entry.in.tag = "Classifiers"
    /\ \E j \in 1..Len(entry.in.c) : ~entry.in.c[j].classifier.predict_ok
    /\ \A j \in 1..Len(entry.in.c) :
          ~(cfg.scale_to_range # NoRange /\ Collapsed(entry.in.c[j].classifier))

(* C10: a start()/force_process() step in which the classifier collaborator  *)
(* fails raises to the caller from learn_fact_extractors or extract_facts,   *)
(* runs no stage after it, and leaves knowledge, questions, answers and the  *)
(* universe's scores as they were; a failing prediction is never answered    *)
(* with scores.                                                              *)
C10_ClassifierFailureIsFatal ==
    [][ lastOp' \in {"start", "force_process"} =>
          LET n == Len(round'.log)
          IN /\ round'.exc = "ClassifierError" =>
                   /\ UNCHANGED <<knowledge, questions, answers, evidence>>
                   /\ round'.log[n].stage \in {"learn_fact_extractors", "extract_facts"}
                   /\ round'.log[n].exc = "ClassifierError"
                   /\ round'.log[n].out = DNone
                   /\ \A i \in 1..(n - 1) : round'.log[i].exc = "none"
             /\ \A i \in 1..n :
                   PredictionFails(round'.log[i]) =>
                       (i = n /\ round'.exc = "ClassifierError") ]_vars

(* C10 witness: force_process() raised from a failing prediction while the *)
(* universe held scores of an earlier round.                               *)
C10_Witness ==
    /\ lastOp = "force_process"
    /\ round.exc = "ClassifierError"
    /\ PredictionFails(round.log[Len(round.log)])
    /\ \E i \in 1..Len(evidence) : evidence[i].s # Half

(* two seed facts carry one relation label with different pairs of entity kinds *)
Conflict ==
    \E i \in 1..Len(seed_facts), j \in 1..Len(seed_facts) :
        /\ seed_facts[i].relation = seed_facts[j].relation
        /\ <<seed_facts[i].e1.kind, seed_facts[i].e2.kind>>
              # <<seed_facts[j].e1.kind, seed_facts[j].e2.kind>>

(* C11: construction raises exactly when two seed facts give one relation     *)
(* label different pairs of kinds, and then there is no pipeline to operate;  *)
(* otherwise the registry holds each seed relation label once, with the pair  *)
(* of kinds of every seed fact of that label, and the pipeline as constructed *)
(* has a universe of Evidence of registered relations, all at score 0.5.      *)
C11_Construction ==
    /\ status = "ValueError" <=> Conflict
    /\ status = "ValueError" => (lastOp = "init" /\ ncalls = 0)
    /\ status = "ok" =>
          /\ { relations[i].rel : i \in 1..Len(relations) }
                = { seed_facts[i].relation : i \in 1..Len(seed_facts) }
          /\ \A i \in 1..Len(relations), j \in 1..Len(relations) :
                relations[i].rel = relations[j].rel => i = j
          /\ \A i \in 1..Len(relations), j \in 1..Len(seed_facts) :
                seed_facts[j].relation = relations[i].rel =>
                    relations[i].kinds = <<seed_facts[j].e1.kind, seed_facts[j].e2.kind>>
          /\ lastOp = "init" =>
                /\ Len(evidence) > 0
                /\ \A i \in 1..Len(evidence) :
                      /\ evidence[i].s = Half
                      /\ RelHas(relations, evidence[i].e.fact.relation)

(* C11 witness: construction raised on seed facts whose conflicting pair is *)
(* separated by a fact of another relation.                                 *)
C11_Witness ==
    /\ status = "ValueError"
    /\ Len(seed_facts) = 3
    /\ seed_facts[1].relation = seed_facts[3].relation
    /\ seed_facts[1].relation # seed_facts[2].relation

(* the last start()/force_process() call ran stage name, to its end or to a raise *)
Ran(name) == \E i \in 1..Len(round.log) : round.log[i].stage = name

(* some key of k carries fact f *)
Known(k, f) == \E i \in 1..Len(k) : k[i].e.fact = f

(* C12 as stated: straight after a call in which generate_questions ran, the *)
(* keys of questions are the universe keys that are not answered, and each   *)
(* question carries the score of its Fact in knowledge when the Fact is      *)
(* known, else its score in the universe.                                    *)
C12_QuestionsReplaced ==
    (RoundCall /\ Ran("generate_questions")) =>
        /\ KKeys(questions) = KKeys(evidence) \ DOMAIN answers
        /\ Len(questions) = Cardinality(KKeys(questions))
        /\ \A i \in 1..Len(questions) :
              questions[i].s = IF Known(knowledge, questions[i].e.fact)
                               THEN FactScore(knowledge, questions[i].e.fact)
                               ELSE KGet(evidence, questions[i].e)

(* the unanswered universe Evidence whose certainty exceeds evidence_threshold *)
Confident ==
    { e \in KKeys(evidence) \ DOMAIN answers :
        certainty(KGet(evidence, e)) > cfg.evidence_threshold }

(* C13: a call entering the rotation at the pause runs filter_evidence first; *)
(* on the attributes as they are before the call it returns a Knowledge whose *)
(* keys are the answered Evidence and the confident unanswered universe       *)
(* Evidence, the former with the human label, the latter with 1 when the      *)
(* score exceeds 0.5 and else 0; and it leaves every attribute as it was.     *)
C13_TrainingData ==
    [][ (lastOp' \in {"start", "force_process"} /\ round'.from = Paused) =>
          LET entry == round'.log[1]
              out == entry.out.k
          IN /\ entry.stage = "filter_evidence"
             /\ entry.exc = "none"
             /\ entry.out.tag = "Knowledge"
             /\ KKeys(out) = DOMAIN answers \cup Confident
             /\ Len(out) = Cardinality(KKeys(out))
             /\ \A e \in DOMAIN answers : KGet(out, e) = answers[e] * One
             /\ \A e \in Confident :
                   KGet(out, e) = IF KGet(evidence, e) > Half THEN One ELSE 0
             /\ filter_evidence(Attributes, round'.input).st = Attributes
             /\ filter_evidence(Attributes, round'.input).out = entry.out
             /\ Len(round'.log) <= 2 => UNCHANGED <<knowledge, questions, answers, evidence>> ]_vars

(* C13 witness: the training data of the last call held a human answer and an *)
(* automatic label while a universe Evidence was left out for lack of         *)
(* certainty; the call ended in learn_fact_extractors, so the universe is the *)
(* one filter_evidence read.                                                  *)
C13_Witness ==
    /\ RoundCall
    /\ round.from = Paused
    /\ Len(round.log) = 2
    /\ \E e \in DOMAIN answers : KHas(round.log[1].out.k, e)
    /\ \E e \in KKeys(round.log[1].out.k) : e \notin DOMAIN answers
    /\ \E i \in 1..Len(evidence) :
          /\ ~KHas(round.log[1].out.k, evidence[i].e)
          /\ certainty(evidence[i].s) <= cfg.evidence_threshold

(* the relations whose labelled evidence in k holds a label 1 and a label 0 *)
BothLabels(k) ==
    { r \in RelationLabels(k) :
        { One, 0 } \subseteq { k[i].s : i \in { j \in 1..Len(k) : k[j].e.fact.relation = r } } }

(* C14: learn_fact_extractors is handed the labelled evidence filter_evidence  *)
(* returned; when it returns, its result holds one classifier for exactly the  *)
(* relations with both a label 1 and a label 0, so a relation with one label   *)
(* only or with no labelled evidence has none; it raises only when the build   *)
(* of a classifier for such a two-label relation fails, never over a relation  *)
(* it skips.                                                                   *)
C14_ClassifierIffBothLabels ==
    \A i \in 1..Len(round.log) :
        round.log[i].stage = "learn_fact_extractors" =>
            LET entry == round.log[i]
            IN /\ entry.in.tag = "Knowledge"
               /\ i > 1
               /\ round.log[i - 1].stage = "filter_evidence"
               /\ entry.in = round.log[i - 1].out
               /\ entry.exc = "none" =>
                     /\ entry.out.tag = "Classifiers"
                     /\ { entry.out.c[j].rel : j \in 1..Len(entry.out.c) } = BothLabels(entry.in.k)
                     /\ Len(entry.out.c) = Cardinality(BothLabels(entry.in.k))
               /\ entry.exc # "none" =>
                     /\ entry.exc = "ClassifierError"
                     /\ BothLabels(entry.in.k) # {}
               /\ BothLabels(entry.in.k) = {} => (entry.exc = "none" /\ entry.out = DC(<<>>))

(* C14 witness: learn_fact_extractors returned a classifier for one relation *)
(* and none for another relation of the universe, whose evidence carries no  *)
(* label.                                                                    *)
C14_Witness ==
    \E i \in 1..Len(round.log) :
        /\ round.log[i].stage = "learn_fact_extractors"
        /\ round.log[i].exc = "none"
        /\ Len(round.log[i].out.c) = 1
        /\ \E r \in RelationLabels(evidence) :
              /\ r # round.log[i].out.c[1].rel
              /\ r \notin RelationLabels(round.log[i].in.k)

(* the classifier handed to extract_facts for relation r: <<>> when there is none *)
Handed(entry, r) == ClassifierFor(entry.in, r)

(* the classifiers an extract_facts run was handed *)
HandedAll(entry) ==
    IF entry.in.tag = "Classifiers"
    THEN { entry.in.c[j].classifier : j \in 1..Len(entry.in.c) }
    ELSE {}

(* what the classifier c predicts for Evidence e, brought into scale_to_range *)
(* by min-max over the scores of its relation's batch when a range is set     *)
Rescaled(c, e) ==
    IF cfg.scale_to_range = NoRange THEN c.scores[e]
    ELSE LET all == { c.scores[x] : x \in DOMAIN c.scores }
             lo == CHOOSE x \in all : \A y \in all : x <= y
             hi == CHOOSE x \in all : \A y \in all : x >= y
             rmin == IF cfg.scale_to_range[1] <= cfg.scale_to_range[2]
                     THEN cfg.scale_to_range[1] ELSE cfg.scale_to_range[2]
             rmax == IF cfg.scale_to_range[1] <= cfg.scale_to_range[2]
                     THEN cfg.scale_to_range[2] ELSE cfg.scale_to_range[1]
         IN ((c.scores[e] - lo) * (rmax - rmin)) \div (hi - lo) + rmin

(* the keys of the result are the universe keys, the universe stores the *)
(* returned scores, and a relation without classifier is all at 0.5      *)
ScoredAndSaved(entry) ==
    /\ entry.out.tag = "Knowledge"
    /\ KKeys(entry.out.k) = KKeys(evidence)
    /\ Len(entry.out.k) = Len(evidence)
    /\ \A e \in KKeys(evidence) : KGet(evidence, e) = KGet(entry.out.k, e)
    /\ \A e \in KKeys(evidence) :
          Handed(entry, e.fact.relation) = <<>> => KGet(entry.out.k, e) = Half

(* C15 as stated: whenever extract_facts returns, every universe Evidence is *)
(* scored and saved, with 0.5 where its relation has no classifier and with  *)
(* the classifier's own score where it has one.                              *)
C15_ClassifierScoreStored ==
    \A i \in 1..Len(round.log) :
        (round.log[i].stage = "extract_facts" /\ round.log[i].exc = "none") =>
            /\ ScoredAndSaved(round.log[i])
            /\ \A e \in KKeys(evidence) :
                  Handed(round.log[i], e.fact.relation) # <<>> =>
                      KGet(round.log[i].out.k, e)
                          = Handed(round.log[i], e.fact.relation)[1].scores[e]

(* C15 amended: whenever extract_facts returns, every universe Evidence is   *)
(* scored and saved, with 0.5 where its relation has no classifier and,      *)
(* where it has one, with the classifier's score rescaled by min-max into    *)
(* scale_to_range when a range is configured, as it is otherwise.  It        *)
(* returns unless it was handed None, a prediction fails, or a range is set  *)
(* and the scores of a relation's batch coincide.                            *)
C15_RescaledScoreStored ==
    \A i \in 1..Len(round.log) :
        round.log[i].stage = "extract_facts" =>
            LET entry == round.log[i]
            IN /\ entry.exc = "none" =>
                     /\ ScoredAndSaved(entry)
                     /\ \A e \in KKeys(evidence) :
                           Handed(entry, e.fact.relation) # <<>> =>
                               KGet(entry.out.k, e)
                                   = Rescaled(Handed(entry, e.fact.relation)[1], e)
               /\ entry.exc = "none" <=>
                     /\ entry.in.tag # "None"
                     /\ \A c \in HandedAll(entry) :
                           /\ c.predict_ok
                           /\ cfg.scale_to_range # NoRange => ~Collapsed(c)

(* C15 witness: with a range configured, extract_facts returned having stored *)
(* for some Evidence a score that is not the one its classifier predicted,    *)
(* and 0.5 for a relation without classifier.                                 *)
C15_Witness ==
    \E i \in 1..Len(round.log) :
        /\ round.log[i].stage = "extract_facts"
        /\ round.log[i].exc = "none"
        /\ cfg.scale_to_range # NoRange
        /\ \E e \in KKeys(evidence) :
              /\ Handed(round.log[i], e.fact.relation) # <<>>
              /\ KGet(evidence, e) # Handed(round.log[i], e.fact.relation)[1].scores[e]
        /\ \E e \in KKeys(evidence) :
              /\ Handed(round.log[i], e.fact.relation) = <<>>
              /\ KGet(evidence, e) = Half

Accepted == { e \in DOMAIN answers : answers[e] = 1 }

(* the keys of k whose score exceeds fact_threshold *)
AboveThreshold(k) == { e \in KKeys(k) : KGet(k, e) > cfg.fact_threshold }

(* the filter_facts run of the last call returned; i is its place in the log *)
FilterFactsReturned(i) ==
    /\ RoundCall
    /\ i \in 1..Len(round.log)
    /\ round.log[i].stage = "filter_facts"
    /\ round.log[i].exc = "none"

LastOf(k, f) ==
    CHOOSE i \in 1..Len(k) : k[i].e.fact = f /\ \A j \in 1..Len(k) : k[j].e.fact = f => j <= i

(* C17: whenever generalize_knowledge returned, its output has for keys the   *)
(* universe Evidence whose Fact is the Fact of some entry of its input, in    *)
(* universe order, each with the score of the last input entry of that Fact;  *)
(* invoked again on the same input it returns the same output, and it leaves  *)
(* the attributes it is invoked on as they are.                               *)
C17_GeneralizeIsPure ==
    \A i \in 1..Len(round.log) :
        (round.log[i].stage = "generalize_knowledge" /\ round.log[i].exc = "none") =>
            LET in == round.log[i].in.k
                out == round.log[i].out.k
            IN /\ round.log[i].in.tag = "Knowledge"
               /\ round.log[i].out.tag = "Knowledge"
               /\ KKeys(out) = { e \in KKeys(evidence) : Known(in, e.fact) }
               /\ Len(out) = Cardinality(KKeys(out))
               /\ \A e \in KKeys(out) : KGet(out, e) = in[LastOf(in, e.fact)].s
               /\ generalize_knowledge(Attributes, round.log[i].in)
                    = Result(Attributes, round.log[i].out, "none")

(* C17 witness: generalize_knowledge returned on a knowledge in which two    *)
(* Evidence of one Fact carry different scores, together with a Fact that    *)
(* has no Evidence in the output.                                            *)
C17_Witness ==
    \E i \in 1..Len(round.log) :
        /\ round.log[i].stage = "generalize_knowledge"
        /\ round.log[i].exc = "none"
        /\ \E a \in 1..Len(round.log[i].in.k), b \in 1..Len(round.log[i].in.k) :
              /\ a < b
              /\ round.log[i].in.k[a].e.fact = round.log[i].in.k[b].e.fact
              /\ round.log[i].in.k[a].s # round.log[i].in.k[b].s
        /\ Len(round.log[i].out.k) < Len(evidence)

(* the ungrounded Evidence of the seed facts *)
SeedEvidence == KKeys(SeedKnowledge(seed_facts))

(* C18: without drop_guesses_each_round, a step takes a key out of knowledge *)
(* only if answers maps it to 0; an Evidence that extract_facts scored above *)
(* fact_threshold in a call that went on through filter_facts is in          *)
(* knowledge unless answered 0; a seed Evidence that is not answered is in   *)
(* knowledge with score 1.                                                   *)
C18_NoDropKeepsKnowledge ==
    [][ ~cfg.drop_guesses_each_round =>
          /\ \A e \in KKeys(knowledge) :
                KHas(knowledge', e) \/ (e \in DOMAIN answers' /\ answers'[e] = 0)
          /\ \A e \in KKeys(knowledge) \ KKeys(knowledge') :
                lastOp' \in {"start", "force_process"} /\ e \in Rejected
          /\ \A e \in SeedEvidence \ DOMAIN answers' :
                KHas(knowledge', e) /\ KGet(knowledge', e) = One
          /\ \A i \in 1..Len(round'.log) :
                (/\ lastOp' \in {"start", "force_process"}
                 /\ round'.log[i].stage = "extract_facts"
                 /\ round'.log[i].exc = "none"
                 /\ i < Len(round'.log)) =>
                    \A e \in KKeys(round'.log[i].out.k) :
                        (KGet(round'.log[i].out.k, e) > cfg.fact_threshold
                         /\ ~(e \in DOMAIN answers' /\ answers'[e] = 0)) =>
                            KHas(knowledge', e) ]_vars

(* C18 witness: without drop_guesses_each_round, after three calls knowledge  *)
(* holds a universe Evidence that is not answered and that the last round     *)
(* scored no higher than fact_threshold, next to an unanswered seed Evidence, *)
(* while an Evidence answered 0 and scored above the threshold is out.        *)
C18_Witness ==
    /\ ~cfg.drop_guesses_each_round
    /\ ncalls >= 3
    /\ Completed("filter_facts")
    /\ \E e \in KKeys(evidence) \ DOMAIN answers :
          KHas(knowledge, e) /\ KGet(evidence, e) <= cfg.fact_threshold
    /\ \E e \in SeedEvidence \ DOMAIN answers : KHas(knowledge, e)
    /\ \E e \in Rejected :
          /\ ~KHas(knowledge, e)
          /\ KHas(evidence, e)
          /\ KGet(evidence, e) > cfg.fact_threshold

(* the pipeline as start() leaves a fresh one: every universe score 0.5, the *)
(* seed knowledge, and the universe as questions, Evidence of a seed fact at *)
(* 1 and the rest at 0.5                                                     *)
Untrained ==
    /\ knowledge = SeedKnowledge(seed_facts)
    /\ evidence = BuildEvidence(relations)
    /\ \A i \in 1..Len(evidence) : evidence[i].s = Half
    /\ questions = [i \in 1..Len(evidence) |->
                      Item(evidence[i].e,
                           IF evidence[i].e.fact \in SeedFactSet THEN One ELSE Half)]
    /\ pos = Paused

(* C19: with no answer given, drop_guesses_each_round off, evidence_threshold *)
(* >= 0 and fact_threshold >= 0.5: start() on the fresh pipeline leaves it    *)
(* Untrained, and a force_process() on the Untrained pipeline runs the seven  *)
(* stages, trains no classifier and leaves it Untrained, with the same        *)
(* questions; so it stays Untrained for any number of force_process() calls.  *)
C19_FixedPointWithoutAnswers ==
    [][ (/\ DOMAIN answers' = {}
         /\ ~cfg.drop_guesses_each_round
         /\ cfg.evidence_threshold >= 0
         /\ cfg.fact_threshold >= Half) =>
          /\ (lastOp' = "start" /\ ncalls = 0) =>
                (round'.exc = "none" /\ Untrained')
          /\ (lastOp' = "force_process" /\ Untrained) =>
                /\ round'.exc = "none"
                /\ Len(round'.log) = 7
                /\ round'.log[2].out = DC(<<>>)
                /\ round'.log[3].out = DK(evidence)
                /\ Untrained'
                /\ questions' = questions ]_vars

(* C19 witness: with both thresholds at their least value, the third call, a *)
(* force_process(), has left the pipeline Untrained with no answer given.    *)
C19_Witness ==
    /\ cfg.evidence_threshold = 0
    /\ cfg.fact_threshold = Half
    /\ ~cfg.drop_guesses_each_round
    /\ DOMAIN answers = {}
    /\ lastOp = "force_process"
    /\ round.from = Paused
    /\ ncalls = 3
    /\ Len(round.log) = 7
    /\ Untrained

(* C20 as stated: with drop_guesses_each_round, straight after a call in     *)
(* which filter_facts returned and the pause was reached, every Evidence     *)
(* answered 1 is a key of knowledge, and no ungrounded seed Evidence is      *)
(* unless it is answered 1.                                                  *)
C20_PositivesKeptSeedsDropped ==
    (/\ cfg.drop_guesses_each_round
     /\ RoundCall
     /\ Completed("filter_facts")
     /\ round.exc = "none"
     /\ pos = Paused) =>
        /\ \A e \in Accepted : KHas(knowledge, e)
        /\ \A e \in SeedEvidence \ Accepted : ~KHas(knowledge, e)

====
